---- MODULE Spec2Model ----
(***************************************************************************)
(* DORA metrics engine (src/DORA/dora_metrics.py, class DORAMetrics), its  *)
(* second variant (src/DORA/dora_metrics_integrated.py, class              *)
(* DORAMetricsIntegrated) and the unified workflow                         *)
(* (src/DORA/analyze_dora.py, main).                                       *)
(*                                                                         *)
(* Numbers with a decimal part are integers in hundredths (1.0 is 100,     *)
(* 0.2 is 20); a value "rounded to one decimal" is a multiple of 10.       *)
(* A JSON object is a record.  A key that is missing holds Absent, a key   *)
(* whose value is JSON null holds Null.  {"name": n} under issuetype or    *)
(* priority is written as the string n.                                    *)
(***************************************************************************)
EXTENDS Integers, Sequences, FiniteSets, TLC

VARIABLES issues_data, pc, ret, workflow

vars == <<issues_data, pc, ret, workflow>>

\* ------------------------------------------------------------ bounds
MaxLen == 2
MaxLeadTimes == 3
MaxIssuesCFR == 10
Delta == 100
MaxClock == 1

\* ------------------------------------------------------------ JSON values
Absent == "<absent>"
Null == "<null>"
AttributeError == "<AttributeError>"

\* Python truthiness of what dict.get returns for a timestamp key:
\* None (missing key or JSON null) and "" are falsy.
Truthy(v) == v \notin {Absent, Null, ""}

NoFields == [kind |-> "absent", created |-> Absent, resolutiondate |-> Absent,
             issuetype |-> Absent, priority |-> Absent]
NullFields == [kind |-> "null", created |-> Absent, resolutiondate |-> Absent,
               issuetype |-> Absent, priority |-> Absent]
Dict(c, r, it, p) == [kind |-> "dict", created |-> c, resolutiondate |-> r,
                      issuetype |-> it, priority |-> p]
Issue(c, r, it, p, f) == [created |-> c, resolutiondate |-> r,
                          issuetype |-> it, priority |-> p, fields |-> f]

\* ------------------------------------------------------------ timestamps
T0 == "2024-01-01T00:00:00.000+0000"
T1 == "2024-01-01T06:00:00.000+0000"
T2 == "2024-01-02T12:00:00.000+0000"
T3 == "2024-01-03T00:00:00.000+0000"
T4 == "2024-01-03T02:00:00.000+0800"
T5 == "2024-01-01T06:02:24.000+0000"
Garbage == "not-a-date"

\* dateutil.parser.parse on the timestamps above: sec is the instant in
\* seconds after 2024-01-01T00:00:00Z, day is .date() (the calendar date in
\* the timestamp's own offset) in days after 2024-01-01.
ParseTable == (T0 :> [sec |-> 0, day |-> 0])
           @@ (T1 :> [sec |-> 21600, day |-> 0])
           @@ (T2 :> [sec |-> 129600, day |-> 1])
           @@ (T3 :> [sec |-> 172800, day |-> 2])
           @@ (T4 :> [sec |-> 151200, day |-> 2])
           @@ (T5 :> [sec |-> 21744, day |-> 0])

Parses(s) == s \in DOMAIN ParseTable
parse(s) == ParseTable[s]

\* ------------------------------------------------------------ arithmetic
\* round(num/den, 1) in hundredths, den > 0: round half to even, as
\* Python's round does on a value that is exact in binary.
Round1(num, den) ==
    LET q == (10 * num) \div den
        r == (10 * num) % den
    IN  IF 2 * r > den \/ (2 * r = den /\ q % 2 = 1)
        THEN 10 * (q + 1) ELSE 10 * q

RECURSIVE SumSeq(_)
SumSeq(s) == IF s = <<>> THEN 0 ELSE Head(s) + SumSeq(Tail(s))

RECURSIVE Insert(_, _)
Insert(x, s) == IF s = <<>> THEN <<x>>
                ELSE IF x <= Head(s) THEN <<x>> \o s
                ELSE <<Head(s)>> \o Insert(x, Tail(s))

RECURSIVE sorted(_)
sorted(s) == IF s = <<>> THEN <<>> ELSE Insert(Head(s), sorted(Tail(s)))

\* ------------------------------------------------------------ record normalizer
\* mutant: issue.get("fields").get(key), the {} default forgotten
NestedGet_NoDefault(issue, key) ==
    CASE issue.fields.kind \in {"absent", "null"} -> AttributeError
      [] OTHER -> IF issue.fields[key] = Absent THEN Null ELSE issue.fields[key]

\* issue.get("fields", {}).get(key): None.get raises when fields is null.
NestedGet(issue, key) ==
    CASE issue.fields.kind = "absent" -> Null
      [] issue.fields.kind = "null" -> AttributeError
      [] OTHER -> IF issue.fields[key] = Absent THEN Null ELSE issue.fields[key]

\* mutant: the nested value preferred to the top-level one
GetTimestamp_NestedFirst(issue, key) ==
    IF NestedGet(issue, key) \notin {Null, "", AttributeError}
    THEN NestedGet(issue, key)
    ELSE IF Truthy(issue[key]) THEN issue[key] ELSE NestedGet(issue, key)

\* issue.get(key) or issue.get("fields", {}).get(key)
GetTimestamp(issue, key) ==
    IF Truthy(issue[key]) THEN issue[key] ELSE NestedGet(issue, key)

\* d.get(key, {}).get("name") for a dict d given as a record
GetName(d, key) ==
    CASE d[key] = Absent -> Null
      [] d[key] = Null -> AttributeError
      [] OTHER -> d[key]

\* issue.get("fields", {}).get(key, {}).get("name")
NestedName(issue, key) ==
    CASE issue.fields.kind = "absent" -> Null
      [] issue.fields.kind = "null" -> AttributeError
      [] OTHER -> GetName(issue.fields, key)

Raised == [status |-> "raised", exc |-> AttributeError]
Ok(v) == [status |-> "ok", val |-> v]

\* ------------------------------------------------------------ lead time
\* the loop body's two lookups raise outside the try block
LeadTimeRaises(issue) ==
    \/ GetTimestamp(issue, "created") = AttributeError
    \/ GetTimestamp(issue, "resolutiondate") = AttributeError

\* created and resolved, and both parse (a failed parse is swallowed)
Elapsable(issue) ==
    /\ Truthy(GetTimestamp(issue, "created"))
    /\ Truthy(GetTimestamp(issue, "resolutiondate"))
    /\ Parses(GetTimestamp(issue, "created"))
    /\ Parses(GetTimestamp(issue, "resolutiondate"))

\* mutant: created_date - resolved_date
ElapsedSeconds_Swapped(issue) ==
    parse(GetTimestamp(issue, "created")).sec
      - parse(GetTimestamp(issue, "resolutiondate")).sec

\* (resolved_date - created_date).total_seconds()
ElapsedSeconds(issue) ==
    parse(GetTimestamp(issue, "resolutiondate")).sec
      - parse(GetTimestamp(issue, "created")).sec

\* mutant: the upper middle value for an even count
median_upper(s) ==
    LET t == sorted(s)
        n == Len(t)
    IN  <<t[n \div 2 + 1], 1>>

\* statistics.median of seconds s, as the fraction <<num, den>>
median(s) ==
    LET t == sorted(s)
        n == Len(t)
    IN  IF n % 2 = 1 THEN <<t[(n + 1) \div 2], 1>>
        ELSE <<t[n \div 2] + t[n \div 2 + 1], 2>>

SecondsPerDay == 24 * 3600

\* the elapsed seconds appended for the issues that pass the test, in order
ElapsedTimes(issues) ==
    LET kept == SelectSeq(issues, Elapsable)
    IN  [i \in 1..Len(kept) |-> ElapsedSeconds(kept[i])]

calculate_lead_time(issues) ==
    IF \E i \in 1..Len(issues) : LeadTimeRaises(issues[i]) THEN Raised
    ELSE LET lead_times == ElapsedTimes(issues)
             n == Len(lead_times)
             s == sorted(lead_times)
         IN  IF n = 0
             THEN Ok([average |-> 0, median |-> 0, min |-> 0, max |-> 0, count |-> 0])
             ELSE Ok([average |-> Round1(SumSeq(lead_times), n * SecondsPerDay),
                      median |-> Round1(median(lead_times)[1],
                                        median(lead_times)[2] * SecondsPerDay),
                      min |-> Round1(s[1], SecondsPerDay),
                      max |-> Round1(s[n], SecondsPerDay),
                      count |-> n])

\* ------------------------------------------------------------ deployment frequency
DeploymentRaises(issue) == GetTimestamp(issue, "resolutiondate") = AttributeError

Deployed(issue) ==
    /\ Truthy(GetTimestamp(issue, "resolutiondate"))
    /\ Parses(GetTimestamp(issue, "resolutiondate"))

\* resolved_date.date()
ResolutionDay(issue) == parse(GetTimestamp(issue, "resolutiondate")).day

days_analyzed == 90

calculate_deployment_frequency(issues) ==
    IF \E i \in 1..Len(issues) : DeploymentRaises(issues[i]) THEN Raised
    ELSE LET kept == SelectSeq(issues, Deployed)
             resolution_dates == [i \in 1..Len(kept) |-> ResolutionDay(kept[i])]
             unique_days == Cardinality({resolution_dates[i] :
                                            i \in 1..Len(resolution_dates)})
         IN  IF Len(resolution_dates) = 0
             THEN Ok([frequency |-> "No data", deployments_per_week |-> 0])
             ELSE Ok([frequency |-> ToString(unique_days) \o " deployment days in 90 days",
                      deployments_per_week |-> Round1(unique_days * 7, days_analyzed),
                      total_deployments |-> unique_days])

\* ------------------------------------------------------------ bug and critical filters
\* issue.get(key, {}).get("name") <test> or
\* issue.get("fields", {}).get(key, {}).get("name") <test>, where <test> is
\* membership in names: the nested lookup runs only when the top-level
\* test is false.
NameTestRaises(issue, key, names) ==
    \/ GetName(issue, key) = AttributeError
    \/ /\ GetName(issue, key) \notin names
       /\ NestedName(issue, key) = AttributeError

NameTest(issue, key, names) ==
    \/ GetName(issue, key) \in names
    \/ NestedName(issue, key) \in names

\* mutant: only the top-level issue type is looked at
IsBug_TopOnly(issue) == GetName(issue, "issuetype") = "Bug"

IsBug(issue) == NameTest(issue, "issuetype", {"Bug"})
IsBugRaises(issue) == NameTestRaises(issue, "issuetype", {"Bug"})
IsCritical(issue) == NameTest(issue, "priority", {"Highest", "High"})
IsCriticalRaises(issue) == NameTestRaises(issue, "priority", {"Highest", "High"})

\* ------------------------------------------------------------ MTTR
\* calculate_mttr deriving average_days from the rounded average_hours
calculate_mttr_FromRounded(issues) ==
    IF \E i \in 1..Len(issues) : IsBugRaises(issues[i]) THEN Raised
    ELSE LET bug_issues == SelectSeq(issues, IsBug) IN
         IF \E i \in 1..Len(bug_issues) : LeadTimeRaises(bug_issues[i]) THEN Raised
         ELSE LET recovery_times == ElapsedTimes(bug_issues)
                  n == Len(recovery_times)
                  average_hours == Round1(SumSeq(recovery_times), n * 3600)
                  average_days == Round1(average_hours, 24 * 100)
              IN  IF n = 0
                  THEN Ok([average_hours |-> 0, average_days |-> 0, count |-> 0])
                  ELSE Ok([average_hours |-> average_hours,
                           average_days |-> average_days,
                           count |-> n])

calculate_mttr(issues) ==
    IF \E i \in 1..Len(issues) : IsBugRaises(issues[i]) THEN Raised
    ELSE LET bug_issues == SelectSeq(issues, IsBug) IN
         IF \E i \in 1..Len(bug_issues) : LeadTimeRaises(bug_issues[i]) THEN Raised
         ELSE LET recovery_times == ElapsedTimes(bug_issues)
                  n == Len(recovery_times)
                  average_hours == Round1(SumSeq(recovery_times), n * 3600)
                  average_days == Round1(SumSeq(recovery_times), n * 3600 * 24)
              IN  IF n = 0
                  THEN Ok([average_hours |-> 0, average_days |-> 0, count |-> 0])
                  ELSE Ok([average_hours |-> average_hours,
                           average_days |-> average_days,
                           count |-> n])

\* ------------------------------------------------------------ change failure rate
calculate_change_failure_rate(issues) ==
    IF \E i \in 1..Len(issues) : IsBugRaises(issues[i]) THEN Raised
    ELSE LET total_issues == Len(issues)
             bug_issues == SelectSeq(issues, IsBug)
             bug_count == Len(bug_issues)
         IN  IF \E i \in 1..bug_count : IsCriticalRaises(bug_issues[i]) THEN Raised
             ELSE LET critical_bugs == SelectSeq(bug_issues, IsCritical) IN
                  Ok([total_issues |-> total_issues,
                      bug_issues |-> bug_count,
                      critical_bugs |-> Len(critical_bugs),
                      failure_rate_percent |->
                          IF total_issues > 0
                          THEN Round1(bug_count * 100, total_issues) ELSE 0,
                      critical_failure_rate_percent |->
                          IF total_issues > 0
                          THEN Round1(Len(critical_bugs) * 100, total_issues) ELSE 0])

\* ------------------------------------------------------------ tier classifier
benchmarks ==
    [lead_time_days |-> [elite |-> 100, high |-> 700, medium |-> 3000],
     deployments_per_week |-> [elite |-> 700, high |-> 100, medium |-> 20],
     mttr_hours |-> [elite |-> 100, high |-> 2400, medium |-> 16800],
     failure_rate |-> [elite |-> 500, high |-> 1500, medium |-> 3000]]

\* mutant: value < threshold in place of value <= threshold
get_performance_level_strict(metric, value) ==
    IF metric \notin DOMAIN benchmarks THEN "Unknown"
    ELSE IF value < benchmarks[metric].elite THEN "Elite"
    ELSE IF value < benchmarks[metric].high THEN "High"
    ELSE IF value < benchmarks[metric].medium THEN "Medium"
    ELSE "Low"

\* mutant: deployments_per_week compared as higher-is-better
get_performance_level_HigherBetter(metric, value) ==
    IF metric \notin DOMAIN benchmarks THEN "Unknown"
    ELSE IF metric = "deployments_per_week"
    THEN IF value >= benchmarks[metric].elite THEN "Elite"
         ELSE IF value >= benchmarks[metric].high THEN "High"
         ELSE IF value >= benchmarks[metric].medium THEN "Medium"
         ELSE "Low"
    ELSE IF value <= benchmarks[metric].elite THEN "Elite"
    ELSE IF value <= benchmarks[metric].high THEN "High"
    ELSE IF value <= benchmarks[metric].medium THEN "Medium"
    ELSE "Low"

get_performance_level(metric, value) ==
    IF metric \notin DOMAIN benchmarks THEN "Unknown"
    ELSE IF value <= benchmarks[metric].elite THEN "Elite"
    ELSE IF value <= benchmarks[metric].high THEN "High"
    ELSE IF value <= benchmarks[metric].medium THEN "Medium"
    ELSE "Low"

\* ------------------------------------------------------------ aggregator
WithLevel(summary, level) == summary @@ [performance_level |-> level]

\* mutant: the MTTR tier taken from average_days
analyze_dora_metrics_MttrDays(issues, now) ==
    IF issues = <<>> THEN Ok(<<>>)
    ELSE LET lead_time == calculate_lead_time(issues)
             deployment_freq == calculate_deployment_frequency(issues)
             mttr == calculate_mttr(issues)
             failure_rate == calculate_change_failure_rate(issues)
         IN  IF \E r \in {lead_time, deployment_freq, mttr, failure_rate} :
                    r.status = "raised"
             THEN Raised
             ELSE Ok([lead_time |->
                          WithLevel(lead_time.val,
                              get_performance_level("lead_time_days",
                                                    lead_time.val.average)),
                      deployment_frequency |->
                          WithLevel(deployment_freq.val,
                              get_performance_level("deployments_per_week",
                                  deployment_freq.val.deployments_per_week)),
                      mttr |->
                          WithLevel(mttr.val,
                              get_performance_level("mttr_hours",
                                                    mttr.val.average_days)),
                      change_failure_rate |->
                          WithLevel(failure_rate.val,
                              get_performance_level("failure_rate",
                                  failure_rate.val.failure_rate_percent)),
                      analysis_date |-> now,
                      total_issues_analyzed |-> Len(issues),
                      data_source |-> "Real JIRA Data (MCP)"])

analyze_dora_metrics(issues, now) ==
    IF issues = <<>> THEN Ok(<<>>)
    ELSE LET lead_time == calculate_lead_time(issues)
             deployment_freq == calculate_deployment_frequency(issues)
             mttr == calculate_mttr(issues)
             failure_rate == calculate_change_failure_rate(issues)
         IN  IF \E r \in {lead_time, deployment_freq, mttr, failure_rate} :
                    r.status = "raised"
             THEN Raised
             ELSE Ok([lead_time |->
                          WithLevel(lead_time.val,
                              get_performance_level("lead_time_days",
                                                    lead_time.val.average)),
                      deployment_frequency |->
                          WithLevel(deployment_freq.val,
                              get_performance_level("deployments_per_week",
                                  deployment_freq.val.deployments_per_week)),
                      mttr |->
                          WithLevel(mttr.val,
                              get_performance_level("mttr_hours",
                                                    mttr.val.average_hours)),
                      change_failure_rate |->
                          WithLevel(failure_rate.val,
                              get_performance_level("failure_rate",
                                  failure_rate.val.failure_rate_percent)),
                      analysis_date |-> now,
                      total_issues_analyzed |-> Len(issues),
                      data_source |-> "Real JIRA Data (MCP)"])

\* ------------------------------------------------------------ DORAMetricsIntegrated
\* src/DORA/dora_metrics_integrated.py: the calculators of the second engine
\* look under `fields` only.
\* mutant: the top-level value looked at first, as in DORAMetrics
Integrated_get_TopFirst(issue, key) ==
    IF Truthy(issue[key]) THEN issue[key] ELSE NestedGet(issue, key)

\* issue.get("fields", {}).get(key)
Integrated_get(issue, key) ==
    CASE issue.fields.kind = "absent" -> Null
      [] issue.fields.kind = "null" -> AttributeError
      [] OTHER -> IF issue.fields[key] = Absent THEN Null ELSE issue.fields[key]

Integrated_Raises(issue) ==
    \/ Integrated_get(issue, "created") = AttributeError
    \/ Integrated_get(issue, "resolutiondate") = AttributeError

Integrated_Elapsable(issue) ==
    /\ Truthy(Integrated_get(issue, "created"))
    /\ Truthy(Integrated_get(issue, "resolutiondate"))
    /\ Parses(Integrated_get(issue, "created"))
    /\ Parses(Integrated_get(issue, "resolutiondate"))

Integrated_ElapsedSeconds(issue) ==
    parse(Integrated_get(issue, "resolutiondate")).sec
      - parse(Integrated_get(issue, "created")).sec

Integrated_ElapsedTimes(issues) ==
    LET kept == SelectSeq(issues, Integrated_Elapsable)
    IN  [i \in 1..Len(kept) |-> Integrated_ElapsedSeconds(kept[i])]

Integrated_calculate_lead_time(issues) ==
    IF \E i \in 1..Len(issues) : Integrated_Raises(issues[i]) THEN Raised
    ELSE LET lead_times == Integrated_ElapsedTimes(issues)
             n == Len(lead_times)
             s == sorted(lead_times)
         IN  IF n = 0
             THEN Ok([average |-> 0, median |-> 0, min |-> 0, max |-> 0, count |-> 0])
             ELSE Ok([average |-> Round1(SumSeq(lead_times), n * SecondsPerDay),
                      median |-> Round1(median(lead_times)[1],
                                        median(lead_times)[2] * SecondsPerDay),
                      min |-> Round1(s[1], SecondsPerDay),
                      max |-> Round1(s[n], SecondsPerDay),
                      count |-> n])

Integrated_Deployed(issue) ==
    /\ Truthy(Integrated_get(issue, "resolutiondate"))
    /\ Parses(Integrated_get(issue, "resolutiondate"))

Integrated_ResolutionDay(issue) ==
    parse(Integrated_get(issue, "resolutiondate")).day

Integrated_calculate_deployment_frequency(issues) ==
    IF \E i \in 1..Len(issues) :
           Integrated_get(issues[i], "resolutiondate") = AttributeError
    THEN Raised
    ELSE LET kept == SelectSeq(issues, Integrated_Deployed)
             resolution_dates ==
                 [i \in 1..Len(kept) |-> Integrated_ResolutionDay(kept[i])]
             unique_days == Cardinality({resolution_dates[i] :
                                            i \in 1..Len(resolution_dates)})
         IN  IF Len(resolution_dates) = 0
             THEN Ok([frequency |-> "No data", deployments_per_week |-> 0])
             ELSE Ok([frequency |-> ToString(unique_days) \o " deployment days in 90 days",
                      deployments_per_week |-> Round1(unique_days * 7, 90),
                      total_deployments |-> unique_days])

\* issue.get("fields", {}).get("issuetype", {}).get("name") == "Bug"
Integrated_IsBug(issue) == NestedName(issue, "issuetype") = "Bug"
Integrated_IsBugRaises(issue) == NestedName(issue, "issuetype") = AttributeError
Integrated_IsCritical(issue) == NestedName(issue, "priority") \in {"Highest", "High"}
Integrated_IsCriticalRaises(issue) == NestedName(issue, "priority") = AttributeError

Integrated_calculate_mttr(issues) ==
    IF \E i \in 1..Len(issues) : Integrated_IsBugRaises(issues[i]) THEN Raised
    ELSE LET bug_issues == SelectSeq(issues, Integrated_IsBug)
             recovery_times == Integrated_ElapsedTimes(bug_issues)
             n == Len(recovery_times)
         IN  IF n = 0
             THEN Ok([average_hours |-> 0, average_days |-> 0, count |-> 0])
             ELSE Ok([average_hours |-> Round1(SumSeq(recovery_times), n * 3600),
                      average_days |-> Round1(SumSeq(recovery_times), n * 3600 * 24),
                      count |-> n])

Integrated_calculate_change_failure_rate(issues) ==
    IF \E i \in 1..Len(issues) : Integrated_IsBugRaises(issues[i]) THEN Raised
    ELSE LET total_issues == Len(issues)
             bug_issues == SelectSeq(issues, Integrated_IsBug)
             bug_count == Len(bug_issues)
         IN  IF \E i \in 1..bug_count : Integrated_IsCriticalRaises(bug_issues[i])
             THEN Raised
             ELSE LET critical_bugs == SelectSeq(bug_issues, Integrated_IsCritical) IN
                  Ok([total_issues |-> total_issues,
                      bug_issues |-> bug_count,
                      critical_bugs |-> Len(critical_bugs),
                      failure_rate_percent |->
                          IF total_issues > 0
                          THEN Round1(bug_count * 100, total_issues) ELSE 0,
                      critical_failure_rate_percent |->
                          IF total_issues > 0
                          THEN Round1(Len(critical_bugs) * 100, total_issues) ELSE 0])

Integrated_benchmarks ==
    [lead_time_days |-> [elite |-> 100, high |-> 700, medium |-> 3000],
     deployments_per_week |-> [elite |-> 700, high |-> 100, medium |-> 20],
     mttr_hours |-> [elite |-> 100, high |-> 2400, medium |-> 16800],
     failure_rate |-> [elite |-> 500, high |-> 1500, medium |-> 3000]]

Integrated_get_performance_level(metric, value) ==
    IF metric \notin DOMAIN Integrated_benchmarks THEN "Unknown"
    ELSE IF value <= Integrated_benchmarks[metric].elite THEN "Elite"
    ELSE IF value <= Integrated_benchmarks[metric].high THEN "High"
    ELSE IF value <= Integrated_benchmarks[metric].medium THEN "Medium"
    ELSE "Low"

\* ------------------------------------------------------------ unified workflow
\* src/DORA/analyze_dora.py.  A JSON document is the data main holds or the
\* content of the data file tmp/dora_metrics_<key>_data.json; only its
\* issues are kept.
NoData == [kind |-> "none", issues |-> <<>>]
MissingFile == [kind |-> "missing", issues |-> <<>>]
\* a file that open or json.load raises on
Unloadable == [kind |-> "unloadable", issues |-> <<>>]
\* a file holding JSON that is no object: data.get raises
NotAnObject == [kind |-> "array", issues |-> <<>>]
Data(issues) == [kind |-> "object", issues |-> issues]

NotReturned == <<>>

\* main at its first step with the given data file on disk: fetched is what
\* fetch_jira_data returned, data the local of that name, via the branch of
\* `if not data` taken, saved what save_data returned, subprocess how the
\* dora_metrics.py run ended, success what run_dora_analysis returned,
\* returns the value main returned
Start(file) ==
    [pc |-> "fetch", fetched |-> NoData, data |-> NoData, data_file |-> file,
     via |-> "none", saved |-> FALSE, subprocess |-> "not run",
     success |-> "not run", returns |-> NotReturned]

SaveOutcomes == {"written", "open raises", "dump raises"}

\* the value save_data returns and the file it leaves: open(filename, 'w')
\* truncates the file before json.dump writes it
save_data(data, file, outcome) ==
    CASE outcome = "written" -> [ok |-> TRUE, file |-> data]
      [] outcome = "open raises" -> [ok |-> FALSE, file |-> file]
      [] outcome = "dump raises" -> [ok |-> FALSE, file |-> Unloadable]

\* subprocess.run(["python3", "dora_metrics.py", ...]): main of
\* dora_metrics.py runs, python3 ends before it (no script, no dateutil), or
\* subprocess.run raises
SubprocessOutcomes == {"main runs", "exit nonzero", "not started"}

\* json.dump of the results file
ResultsOutcomes == {"written", "write raises"}

\* main of dora_metrics.py on the data file: every way out is a plain
\* return or a caught exception, so the process exits with 0
dora_metrics_main(file, now, write) ==
    LET metrics == analyze_dora_metrics(file.issues, now)
        ended == CASE file.kind = "missing" -> "data file not found"
                   [] file.kind = "unloadable" -> "data file unparseable"
                   [] file.kind # "object" -> "exception"
                   [] file.issues = <<>> -> "no issues"
                   [] metrics.status = "raised" -> "exception"
                   [] metrics.val = <<>> -> "no metrics"
                   [] write = "write raises" -> "exception"
                   [] OTHER -> "results written"
    IN  [ended |-> ended, returncode |-> 0]

\* result.returncode == 0; an exception of subprocess.run gives False
run_dora_analysis(run) == run.ended # "not started" /\ run.returncode = 0

Returning(w, code) == [w EXCEPT !.pc = "returned", !.returns = <<code>>]

\* data = fetch_jira_data(args.project_key): None or a dict with issues
main_fetch(fetchable) ==
    /\ workflow.pc = "fetch"
    /\ \E d \in {NoData} \cup {Data(i) : i \in fetchable} :
          workflow' = [workflow EXCEPT !.fetched = d, !.data = d,
                                       !.pc = IF d = NoData THEN "fallback" ELSE "save"]
    /\ UNCHANGED <<issues_data, pc, ret>>

\* the branch `if not data`: the existing data file, or return 1
main_fallback ==
    /\ workflow.pc = "fallback"
    /\ workflow' =
          IF workflow.data_file.kind = "object"
          THEN [workflow EXCEPT !.via = "fallback", !.data = workflow.data_file,
                                !.pc = "analyze"]
          ELSE Returning([workflow EXCEPT !.via = "fallback"], 1)
    /\ UNCHANGED <<issues_data, pc, ret>>

\* mutant: the result of save_data not looked at
main_save_Unchecked ==
    /\ workflow.pc = "save"
    /\ \E outcome \in SaveOutcomes :
          LET r == save_data(workflow.data, workflow.data_file, outcome)
          IN  workflow' = [workflow EXCEPT !.via = "save", !.saved = r.ok,
                                           !.data_file = r.file, !.pc = "analyze"]
    /\ UNCHANGED <<issues_data, pc, ret>>

\* the else branch: save the fresh data, or return 1
main_save ==
    /\ workflow.pc = "save"
    /\ \E outcome \in SaveOutcomes :
          LET r == save_data(workflow.data, workflow.data_file, outcome)
              w == [workflow EXCEPT !.via = "save", !.saved = r.ok,
                                    !.data_file = r.file]
          IN  workflow' = IF r.ok THEN [w EXCEPT !.pc = "analyze"]
                          ELSE Returning(w, 1)
    /\ UNCHANGED <<issues_data, pc, ret>>

\* success = run_dora_analysis(...); return 0 if success else 1
main_analyze ==
    /\ workflow.pc = "analyze"
    /\ \E outcome \in SubprocessOutcomes, now \in 0..MaxClock,
          write \in ResultsOutcomes :
          LET run == IF outcome = "main runs"
                     THEN dora_metrics_main(workflow.data_file, now, write)
                     ELSE [ended |-> outcome, returncode |-> 1]
              success == run_dora_analysis(run)
          IN  workflow' =
                  Returning([workflow EXCEPT
                                 !.subprocess = run.ended,
                                 !.success = IF success THEN "True" ELSE "False"],
                            IF success THEN 0 ELSE 1)
    /\ UNCHANGED <<issues_data, pc, ret>>

\* ------------------------------------------------------------ state machine
\* issues_data is the analyzer's list; pc is "new" after construction and
\* "loaded" once main has handed the loaded issues to set_issues_data; ret
\* is the last call made on the analyzer: its name, its argument and what
\* it returned or raised; workflow is the run of analyze_dora.main.
NoCall == [op |-> "none", arg |-> <<>>, status |-> "ok", val |-> <<>>]
Call(name, arg, result) == [op |-> name, arg |-> arg] @@ result

Init ==
    /\ issues_data = <<>> /\ pc = "new" /\ ret = NoCall
    /\ workflow = Start(MissingFile)

set_issues_data(issues) ==
    /\ issues_data' = issues
    /\ pc' = "loaded"
    /\ UNCHANGED <<ret, workflow>>

\* main hands the issues it loaded to the analyzer once
load(inputs) == pc = "new" /\ \E issues \in inputs : set_issues_data(issues)

\* mutant: the loop takes the issues off the analyzer's list
lead_time_call_Consuming ==
    /\ ret' = Call("calculate_lead_time", issues_data,
                   calculate_lead_time(issues_data))
    /\ issues_data' = <<>>
    /\ UNCHANGED <<pc, workflow>>

lead_time_call ==
    /\ ret' = Call("calculate_lead_time", issues_data,
                   calculate_lead_time(issues_data))
    /\ UNCHANGED <<issues_data, pc, workflow>>

deployment_frequency_call ==
    /\ ret' = Call("calculate_deployment_frequency", issues_data,
                   calculate_deployment_frequency(issues_data))
    /\ UNCHANGED <<issues_data, pc, workflow>>

mttr_call ==
    /\ ret' = Call("calculate_mttr", issues_data, calculate_mttr(issues_data))
    /\ UNCHANGED <<issues_data, pc, workflow>>

change_failure_rate_call ==
    /\ ret' = Call("calculate_change_failure_rate", issues_data,
                   calculate_change_failure_rate(issues_data))
    /\ UNCHANGED <<issues_data, pc, workflow>>

performance_level_call(metric, value) ==
    /\ ret' = Call("get_performance_level", <<metric, value>>,
                   Ok(get_performance_level(metric, value)))
    /\ UNCHANGED <<issues_data, pc, workflow>>

\* mutant: the run's time written into data_source as well
analyze_call_DatedSource(now) ==
    LET r == analyze_dora_metrics(issues_data, now) IN
    /\ ret' = Call("analyze_dora_metrics", issues_data,
                   IF r.status = "ok" /\ issues_data # <<>>
                   THEN Ok([r.val EXCEPT !.data_source = <<@, now>>])
                   ELSE r)
    /\ UNCHANGED <<issues_data, pc, workflow>>

analyze_call(now) ==
    /\ ret' = Call("analyze_dora_metrics", issues_data,
                   analyze_dora_metrics(issues_data, now))
    /\ UNCHANGED <<issues_data, pc, workflow>>

\* the calls on a DORAMetricsIntegrated object, given the same list of issues
Integrated_lead_time_call ==
    /\ ret' = Call("DORAMetricsIntegrated.calculate_lead_time", issues_data,
                   Integrated_calculate_lead_time(issues_data))
    /\ UNCHANGED <<issues_data, pc, workflow>>

Integrated_deployment_frequency_call ==
    /\ ret' = Call("DORAMetricsIntegrated.calculate_deployment_frequency", issues_data,
                   Integrated_calculate_deployment_frequency(issues_data))
    /\ UNCHANGED <<issues_data, pc, workflow>>

Integrated_mttr_call ==
    /\ ret' = Call("DORAMetricsIntegrated.calculate_mttr", issues_data,
                   Integrated_calculate_mttr(issues_data))
    /\ UNCHANGED <<issues_data, pc, workflow>>

Integrated_change_failure_rate_call ==
    /\ ret' = Call("DORAMetricsIntegrated.calculate_change_failure_rate", issues_data,
                   Integrated_calculate_change_failure_rate(issues_data))
    /\ UNCHANGED <<issues_data, pc, workflow>>

Integrated_performance_level_call(metric, value) ==
    /\ ret' = Call("DORAMetricsIntegrated.get_performance_level", <<metric, value>>,
                   Ok(Integrated_get_performance_level(metric, value)))
    /\ UNCHANGED <<issues_data, pc, workflow>>


\* ------------------------------------------------------------ inputs
RECURSIVE SeqsUpTo(_, _)
SeqsUpTo(S, n) ==
    IF n = 0 THEN {<<>>}
    ELSE LET shorter == SeqsUpTo(S, n - 1)
         IN  shorter \cup {Append(s, x) : s \in {t \in shorter : Len(t) = n - 1}, x \in S}

\* the two shapes, records that carry both, and malformed records
FlatBug == Issue(T0, T3, "Bug", "High", NoFields)
FlatStory == Issue(T0, T1, "Story", "Low", NoFields)
FlatOpenBug == Issue(T0, Null, "Bug", "Highest", NoFields)
NestedBug == Issue(Absent, Absent, Absent, Absent, Dict(T0, T3, "Bug", "High"))
NestedStory == Issue(Absent, Absent, Absent, Absent, Dict(T1, T2, "Story", "Medium"))
BothShapes == Issue(T0, T3, "Story", "Low", Dict(T1, T2, "Bug", "Highest"))
GarbageOnTop == Issue(Garbage, Garbage, Absent, Absent, Dict(T0, T3, "Task", "Low"))
SplitShapes == Issue(T0, Absent, "Bug", Absent, Dict(Absent, T2, Absent, "High"))
NullFieldsResolved == Issue(T0, T3, "Bug", "High", NullFields)
NullFieldsOpen == Issue(T0, Null, "Story", "Low", NullFields)
NullIssueType == Issue(T0, T3, Null, "High", NoFields)
NullPriority == Issue(Absent, Absent, Absent, Absent, Dict(T0, T3, "Bug", Null))
LowerCaseBug == Issue(T0, T3, "bug", "High", NoFields)
BugFix == Issue(Absent, Absent, Absent, Absent, Dict(T0, T3, "Bug Fix", "Highest"))
EmptyCreated == Issue("", T3, "Bug", "high", NoFields)
KeyOnly == Issue(Absent, Absent, Absent, Absent, NoFields)

Records ==
    {FlatBug, FlatStory, FlatOpenBug, NestedBug, NestedStory, BothShapes,
     GarbageOnTop, SplitShapes, NullFieldsResolved, NullFieldsOpen,
     NullIssueType, NullPriority, LowerCaseBug, BugFix, EmptyCreated, KeyOnly}


Next ==
    \/ load(SeqsUpTo(Records, MaxLen))
    \/ lead_time_call
    \/ deployment_frequency_call
    \/ mttr_call
    \/ change_failure_rate_call
    \/ \E now \in 0..MaxClock : analyze_call(now)

Spec == Init /\ [][Next]_vars

\* flat records that differ in their timestamps only
LeadTimeRecords ==
    {Issue(c, r, "Story", "Low", NoFields) :
        c \in {T0, T1}, r \in {T0, T1, T2, T3, Null, Garbage}}

NextLT ==
    \/ load(SeqsUpTo(LeadTimeRecords, MaxLeadTimes))
    \/ lead_time_call

SpecLT == Init /\ [][NextLT]_vars

\* records that differ in issue type and priority only
FailureRateRecords ==
    {Issue(T0, T3, "Bug", "Highest", NoFields),
     Issue(Absent, Absent, Absent, Absent, Dict(T0, T3, "Bug", "high")),
     Issue(T0, T3, "Story", "High", NoFields)}

NextCFR ==
    \/ load(SeqsUpTo(FailureRateRecords, MaxIssuesCFR))
    \/ change_failure_rate_call

SpecCFR == Init /\ [][NextCFR]_vars

\* Bug records resolved after 6.04, 48 and 42 hours, Bug records without a
\* parseable pair of timestamps, and a resolved record that is no Bug
MTTRRecords ==
    {Issue(T0, T5, "Bug", "High", NoFields),
     Issue(T0, T3, "Bug", "Low", NoFields),
     Issue(Absent, Absent, Absent, Absent, Dict(T1, T3, "Bug", "Low")),
     Issue(T0, Null, "Bug", "Highest", NoFields),
     Issue(Garbage, T3, "Bug", "Low", NoFields),
     Issue(T0, T1, "Story", "Low", NoFields)}

MaxBugs == 3

NextMTTR ==
    \/ load(SeqsUpTo(MTTRRecords, MaxBugs))
    \/ mttr_call

SpecMTTR == Init /\ [][NextMTTR]_vars

\* classifier inputs: every value within Delta hundredths of a threshold,
\* zero, a negative value and 999
Thresholds ==
    UNION {{benchmarks[m].elite, benchmarks[m].high, benchmarks[m].medium} :
              m \in DOMAIN benchmarks}

Values ==
    UNION {(t - Delta)..(t + Delta) : t \in Thresholds \cup {0}} \cup {99900}

Metrics == DOMAIN benchmarks \cup {"lead_time"}

\* the classifier reads no state: one call per behaviour
NextClassify ==
    ret.op = "none" /\ \E metric \in Metrics, value \in Values : performance_level_call(metric, value)

SpecClassify == Init /\ [][NextClassify]_vars

\* records of the nested shape, of the flat shape and with no field at all
NestedOpenBug == Issue(Absent, Absent, Absent, Absent, Dict(T0, Null, "Bug", "Highest"))
NestedGarbage == Issue(Absent, Absent, Absent, Absent, Dict(Garbage, T3, "Story", "Low"))
NestedNullType == Issue(Absent, Absent, Absent, Absent, Dict(T0, T3, Null, "High"))

VariantRecords ==
    {NestedBug, NestedStory, BugFix, NullPriority, NestedOpenBug, NestedGarbage,
     NestedNullType, KeyOnly, FlatBug, FlatStory}

MaxVariantLen == 2

\* both engines are given the same list; the classifiers read no state and
\* are called once, on a new analyzer
NextVariants ==
    \/ ret.op = "none" /\ load(SeqsUpTo(VariantRecords, MaxVariantLen))
    \/ lead_time_call
    \/ deployment_frequency_call
    \/ mttr_call
    \/ change_failure_rate_call
    \/ Integrated_lead_time_call
    \/ Integrated_deployment_frequency_call
    \/ Integrated_mttr_call
    \/ Integrated_change_failure_rate_call
    \/ /\ pc = "new" /\ ret.op = "none"
       /\ \E metric \in Metrics, value \in Values :
              performance_level_call(metric, value)
    \/ /\ pc = "new" /\ ret.op = "none"
       /\ \E metric \in Metrics, value \in Values :
              Integrated_performance_level_call(metric, value)

SpecVariants == Init /\ [][NextVariants]_vars

\* the issues a fetch can return or a data file can hold
WorkflowRecords == {FlatBug, NestedStory, NullFieldsOpen}

MaxFileIssues == 2

DataFiles ==
    {MissingFile, Unloadable, NotAnObject}
        \cup {Data(i) : i \in SeqsUpTo(WorkflowRecords, MaxFileIssues)}

\* fetch_jira_data returns None when the search finds no issue
Fetchable == SeqsUpTo(WorkflowRecords, MaxFileIssues) \ {<<>>}

InitMain ==
    /\ issues_data = <<>> /\ pc = "new" /\ ret = NoCall
    /\ \E file \in DataFiles : workflow = Start(file)

NextMain ==
    \/ main_fetch(Fetchable)
    \/ main_fallback
    \/ main_save
    \/ main_analyze

SpecMain == InitMain /\ [][NextMain]_vars

\* ------------------------------------------------------------ claims
Calculators == {"calculate_lead_time", "calculate_deployment_frequency",
                "calculate_mttr", "calculate_change_failure_rate"}

\* C1: each of the four calculators returns a result and never raises,
\* whatever records the input holds, malformed ones included.
C1_NeverRaises == ret.op \in Calculators => ret.status = "ok"

\* A well-formed record: `fields` is missing or an object, and issuetype
\* and priority are missing or an object wherever they appear.
WellFormed(issue) ==
    /\ issue.fields.kind # "null"
    /\ Null \notin {issue.issuetype, issue.priority,
                    issue.fields.issuetype, issue.fields.priority}

AllWellFormed(issues) == \A i \in 1..Len(issues) : WellFormed(issues[i])

SummaryKeys == {"lead_time", "deployment_frequency", "mttr", "change_failure_rate"}

IsAnalysisResult(v, issues) ==
    /\ SummaryKeys \cup {"total_issues_analyzed", "analysis_date"} \subseteq DOMAIN v
    /\ v.total_issues_analyzed = Len(issues)

EmptySummaries(v) ==
    /\ v.lead_time.count = 0 /\ v.lead_time.average = 0
    /\ v.deployment_frequency.frequency = "No data"
    /\ v.mttr.count = 0
    /\ v.change_failure_rate.total_issues = 0

Tiers == {"Elite", "High", "Medium", "Low"}

Rank(tier) == CASE tier = "Low" -> 0 [] tier = "Medium" -> 1
                [] tier = "High" -> 2 [] tier = "Elite" -> 3

\* C3: deployments_per_week is classified higher-is-better: a larger value
\* never gets a worse tier than a smaller one, and each of the four tiers
\* is the result for some value.
C3_DeploymentsHigherIsBetter ==
    (ret.op = "get_performance_level" /\ ret.arg[1] = "deployments_per_week") =>
        /\ \A v1 \in Values :
              v1 <= ret.arg[2] =>
                  Rank(get_performance_level("deployments_per_week", v1))
                      <= Rank(ret.val)
        /\ \A tier \in Tiers : \E v \in Values :
              get_performance_level("deployments_per_week", v) = tier

\* the thresholds of claim C4, in hundredths
LowerIsBetter ==
    [lead_time_days |-> <<100, 700, 3000>>,
     mttr_hours |-> <<100, 2400, 16800>>,
     failure_rate |-> <<500, 1500, 3000>>]

\* C4: for lead_time_days, mttr_hours and failure_rate the tier is Elite up
\* to and including the first threshold, High up to and including the
\* second, Medium up to and including the third, and Low above it
\* (lead_time_days: 1 is Elite, 1.01 is High, 999 is Low).
C4_LowerIsBetterTiers ==
    (ret.op = "get_performance_level" /\ ret.arg[1] \in DOMAIN LowerIsBetter) =>
        LET t == LowerIsBetter[ret.arg[1]]
            v == ret.arg[2]
        IN  /\ ret.val \in Tiers
            /\ ret.val = "Elite" <=> v <= t[1]
            /\ ret.val = "High" <=> (t[1] < v /\ v <= t[2])
            /\ ret.val = "Medium" <=> (t[2] < v /\ v <= t[3])
            /\ ret.val = "Low" <=> t[3] < v
            /\ ret.arg = <<"lead_time_days", 100>> => ret.val = "Elite"
            /\ ret.arg = <<"lead_time_days", 101>> => ret.val = "High"
            /\ ret.arg = <<"lead_time_days", 99900>> => ret.val = "Low"

C4_Witness ==
    /\ ret.op = "get_performance_level"
    /\ ret.arg = <<"mttr_hours", 16800>>
    /\ ret.val = "Medium"

\* ---- what the claims call the normalized fields of a record
HoldsValue(v) == v \notin {Absent, Null, ""}

NestedValue(issue, key) ==
    IF issue.fields.kind = "dict" THEN issue.fields[key] ELSE Absent

\* the top-level value when there is one, the nested value otherwise
Preferred(issue, key) ==
    IF HoldsValue(issue[key]) THEN issue[key]
    ELSE IF HoldsValue(NestedValue(issue, key)) THEN NestedValue(issue, key)
    ELSE Null

Count(issues, P(_)) == Cardinality({i \in 1..Len(issues) : P(issues[i])})

MapSeq(issues, F(_)) == [i \in 1..Len(issues) |-> F(issues[i])]

Apply(op, issues) ==
    CASE op = "calculate_lead_time" -> calculate_lead_time(issues)
      [] op = "calculate_deployment_frequency" -> calculate_deployment_frequency(issues)
      [] op = "calculate_mttr" -> calculate_mttr(issues)
      [] op = "calculate_change_failure_rate" -> calculate_change_failure_rate(issues)

\* the record with each timestamp reduced to its preferred value, kept at
\* top level
PreferredOnly(issue) ==
    [issue EXCEPT !.created = Preferred(issue, "created"),
                  !.resolutiondate = Preferred(issue, "resolutiondate"),
                  !.fields = IF issue.fields.kind = "dict"
                             THEN [issue.fields EXCEPT !.created = Absent,
                                                       !.resolutiondate = Absent]
                             ELSE issue.fields]

IsFlat(issue) == issue.fields.kind = "absent"

\* the flat record with its four fields moved under `fields`
Nested(issue) ==
    Issue(Absent, Absent, Absent, Absent,
          Dict(issue.created, issue.resolutiondate, issue.issuetype, issue.priority))

\* C5: for each timestamp the calculators use the top-level value when both
\* locations hold one and the only value when one location holds one, and
\* a flat record gives every calculator the same result as the same record
\* nested under `fields`.
C5_TopLevelPreferred ==
    ret.op \in Calculators =>
        /\ ret = Call(ret.op, ret.arg, Apply(ret.op, MapSeq(ret.arg, PreferredOnly)))
        /\ (\A i \in 1..Len(ret.arg) : IsFlat(ret.arg[i])) =>
              ret = Call(ret.op, ret.arg, Apply(ret.op, MapSeq(ret.arg, Nested)))

C5_Witness ==
    /\ ret.op = "calculate_lead_time"
    /\ ret.arg = <<BothShapes, SplitShapes>>
    /\ ret.status = "ok"
    /\ ret.val.count = 2
    /\ ret.val.max = 200

AnyParses(issue, key) == Parses(issue[key]) \/ Parses(NestedValue(issue, key))

BothFound(issue) == AnyParses(issue, "created") /\ AnyParses(issue, "resolutiondate")

\* the top-level issue type when present, the nested one otherwise
NormalizedType(issue) ==
    IF issue.issuetype \notin {Absent, Null} THEN issue.issuetype
    ELSE NestedValue(issue, "issuetype")

NormalizedBug(issue) == NormalizedType(issue) = "Bug"

\* a record calculate_mttr selects as a Bug, with both timestamps found
FoundBug(issue) == IsBug(issue) /\ BothFound(issue)

\* C6: a record is in the Lead Time population (and, when a Bug, in the
\* MTTR population) as soon as one of the two locations holds a parseable
\* created value and one holds a parseable resolved value.
C6_IncludedWhenEitherParses ==
    /\ (ret.op = "calculate_lead_time" /\ ret.status = "ok") =>
          ret.val.count = Count(ret.arg, BothFound)
    /\ (ret.op = "calculate_mttr" /\ ret.status = "ok") =>
          ret.val.count = Count(ret.arg, FoundBug)

NormalizedBugElapsable(issue) == NormalizedBug(issue) /\ Elapsable(issue)

\* C7: the bug population of calculate_mttr and calculate_change_failure_rate
\* is the records whose normalized issue type (top-level when present,
\* nested otherwise) is exactly "Bug".
C7_BugIffNormalizedType ==
    /\ (ret.op = "calculate_change_failure_rate" /\ ret.status = "ok") =>
          ret.val.bug_issues = Count(ret.arg, NormalizedBug)
    /\ (ret.op = "calculate_mttr" /\ ret.status = "ok") =>
          ret.val.count = Count(ret.arg, NormalizedBugElapsable)

\* t (hundredths, one decimal) is num/den rounded to one decimal, den > 0
IsRounded1(t, num, den) ==
    /\ t % 10 = 0
    /\ 2 * (t * den - 100 * num) <= 10 * den
    /\ 2 * (100 * num - t * den) <= 10 * den

NormalizedPriority(issue) ==
    IF issue.priority \notin {Absent, Null} THEN issue.priority
    ELSE NestedValue(issue, "priority")

NormalizedCritical(issue) ==
    NormalizedBug(issue) /\ NormalizedPriority(issue) \in {"Highest", "High"}

\* C8: total_issues is the number N of records, bug_issues the number B of
\* Bug records, critical_bugs the number C of Bug records with priority
\* Highest or High, the two rates are 100*B/N and 100*C/N rounded to one
\* decimal, both 0 when N = 0; 0 <= C <= B <= N and
\* 0 <= critical rate <= failure rate <= 100; N = 10, B = 3 gives 30.0.
C8_FailureRate ==
    ret.op = "calculate_change_failure_rate" =>
        LET N == Len(ret.arg)
            B == Count(ret.arg, NormalizedBug)
            C == Count(ret.arg, NormalizedCritical)
        IN  /\ ret.status = "ok"
            /\ ret.val.total_issues = N
            /\ ret.val.bug_issues = B
            /\ ret.val.critical_bugs = C
            /\ N = 0 => /\ ret.val.failure_rate_percent = 0
                        /\ ret.val.critical_failure_rate_percent = 0
            /\ N > 0 => /\ IsRounded1(ret.val.failure_rate_percent, 100 * B, N)
                        /\ IsRounded1(ret.val.critical_failure_rate_percent, 100 * C, N)
            /\ 0 <= ret.val.critical_bugs
            /\ ret.val.critical_bugs <= ret.val.bug_issues
            /\ ret.val.bug_issues <= ret.val.total_issues
            /\ 0 <= ret.val.critical_failure_rate_percent
            /\ ret.val.critical_failure_rate_percent <= ret.val.failure_rate_percent
            /\ ret.val.failure_rate_percent <= 10000
            /\ (N = 10 /\ B = 3) => ret.val.failure_rate_percent = 3000

C8_Witness ==
    /\ ret.op = "calculate_change_failure_rate"
    /\ ret.val.total_issues = 10
    /\ ret.val.bug_issues = 3
    /\ ret.val.critical_bugs = 1
    /\ ret.val.failure_rate_percent = 3000
    /\ ret.val.critical_failure_rate_percent = 1000

\* ---- the Lead Time population as claims C9 and C10 describe it
BothParse(issue) ==
    /\ Parses(Preferred(issue, "created"))
    /\ Parses(Preferred(issue, "resolutiondate"))

Population(issues) == {i \in 1..Len(issues) : BothParse(issues[i])}

\* (resolved - created) in seconds
Elapsed(issue) ==
    ParseTable[Preferred(issue, "resolutiondate")].sec
      - ParseTable[Preferred(issue, "created")].sec

TotalElapsed(issues) ==
    SumSeq([i \in 1..Len(issues) |->
               IF BothParse(issues[i]) THEN Elapsed(issues[i]) ELSE 0])

Least(issues) ==
    CHOOSE x \in {Elapsed(issues[i]) : i \in Population(issues)} :
        \A i \in Population(issues) : x <= Elapsed(issues[i])

Greatest(issues) ==
    CHOOSE x \in {Elapsed(issues[i]) : i \in Population(issues)} :
        \A i \in Population(issues) : x >= Elapsed(issues[i])

\* the k-th smallest elapsed value, counted with multiplicity
Kth(issues, k) ==
    CHOOSE x \in {Elapsed(issues[i]) : i \in Population(issues)} :
        /\ Cardinality({i \in Population(issues) : Elapsed(issues[i]) < x}) < k
        /\ k <= Cardinality({i \in Population(issues) : Elapsed(issues[i]) <= x})

\* t is the statistical median of the population, in days, to one decimal
IsMedian(t, issues) ==
    LET n == Cardinality(Population(issues))
    IN  IF n % 2 = 1
        THEN IsRounded1(t, Kth(issues, (n + 1) \div 2), 86400)
        ELSE IsRounded1(t, Kth(issues, n \div 2) + Kth(issues, n \div 2 + 1),
                        2 * 86400)

\* C9: the Lead Time population is the records whose created and resolved
\* timestamps both parse; count is its size; average, median, min and max
\* are the mean, median, least and greatest of (resolved - created)/86400
\* over it, to one decimal; all five are 0 when it is empty.
C9_LeadTimeSummary ==
    ret.op = "calculate_lead_time" =>
        LET n == Cardinality(Population(ret.arg))
        IN  /\ ret.status = "ok"
            /\ ret.val.count = n
            /\ n = 0 => ret.val = [average |-> 0, median |-> 0, min |-> 0,
                                   max |-> 0, count |-> 0]
            /\ n > 0 =>
                  /\ IsRounded1(ret.val.average, TotalElapsed(ret.arg), n * 86400)
                  /\ IsMedian(ret.val.median, ret.arg)
                  /\ IsRounded1(ret.val.min, Least(ret.arg), 86400)
                  /\ IsRounded1(ret.val.max, Greatest(ret.arg), 86400)

C9_Witness ==
    /\ ret.op = "calculate_lead_time"
    /\ Len(ret.arg) = 3
    /\ ret.val.count = 2
    /\ ret.val.min < ret.val.average
    /\ ret.val.average < ret.val.max

\* C10: on a non-empty population the reported values satisfy
\* min <= average <= max and min <= median <= max, and median is the middle
\* elapsed value for an odd count and the mean of the two middle values for
\* an even count.
C10_MedianAndBounds ==
    (ret.op = "calculate_lead_time" /\ ret.status = "ok" /\ ret.val.count > 0) =>
        /\ ret.val.min <= ret.val.average
        /\ ret.val.average <= ret.val.max
        /\ ret.val.min <= ret.val.median
        /\ ret.val.median <= ret.val.max
        /\ IsMedian(ret.val.median, ret.arg)

C10_Witness ==
    /\ ret.op = "calculate_lead_time"
    /\ ret.status = "ok"
    /\ ret.val.count = 2
    /\ ret.val.min < ret.val.median
    /\ ret.val.median < ret.val.max

\* ---- deployment frequency
ResolvedParses(issue) == Parses(Preferred(issue, "resolutiondate"))

\* the calendar dates on which the records of the input were resolved
ResolvedDates(issues) ==
    {ParseTable[Preferred(issues[i], "resolutiondate")].day :
        i \in {j \in 1..Len(issues) : ResolvedParses(issues[j])}}

\* C11: total_deployments is the number of distinct calendar dates among the
\* parseable resolved timestamps of all records (any issue type, created
\* not needed), and deployments_per_week is that number / 90 * 7 rounded to
\* one decimal.
C11_DistinctResolvedDates ==
    (ret.op = "calculate_deployment_frequency" /\ ret.status = "ok") =>
        /\ "total_deployments" \in DOMAIN ret.val
        /\ ret.val.total_deployments = Cardinality(ResolvedDates(ret.arg))
        /\ ret.val.deployments_per_week =
              Round1(7 * Cardinality(ResolvedDates(ret.arg)), 90)

\* C12: every result of calculate_deployment_frequency has the three fields
\* frequency, deployments_per_week and total_deployments, and when no record
\* has a parseable resolved timestamp frequency is "No data" and
\* deployments_per_week is 0.
C12_ThreeFieldsAlways ==
    (ret.op = "calculate_deployment_frequency" /\ ret.status = "ok") =>
        /\ DOMAIN ret.val = {"frequency", "deployments_per_week", "total_deployments"}
        /\ ResolvedDates(ret.arg) = {} =>
              /\ ret.val.frequency = "No data"
              /\ ret.val.deployments_per_week = 0

\* ---- MTTR
BugBothParse(issue) == NormalizedBug(issue) /\ BothParse(issue)

\* the elapsed seconds of the Bug records whose timestamps both parse, added up
TotalRecovery(issues) ==
    SumSeq([i \in 1..Len(issues) |->
               IF BugBothParse(issues[i]) THEN Elapsed(issues[i]) ELSE 0])

\* the population, its count, the zero sentinel and average_hours as C13
\* states them
MttrPopulation ==
    LET n == Count(ret.arg, BugBothParse) IN
    /\ ret.val.count = n
    /\ n = 0 => ret.val = [average_hours |-> 0, average_days |-> 0, count |-> 0]
    /\ n > 0 => IsRounded1(ret.val.average_hours, TotalRecovery(ret.arg), n * 3600)

\* C13 as stated: the MTTR population is the Bug records whose created and
\* resolved both parse, count is its size, average_hours the mean recovery
\* time in hours rounded to one decimal, average_days equals
\* round(average_hours / 24, 1) for the reported average_hours, and an empty
\* population gives zeros.
C13_DaysFromReportedHours ==
    (ret.op = "calculate_mttr" /\ ret.status = "ok") =>
        /\ MttrPopulation
        /\ ret.val.average_days = Round1(ret.val.average_hours, 24 * 100)

\* C13 amended: average_days is the mean recovery time in days (the unrounded
\* mean of the hours, divided by 24) rounded to one decimal, and it is
\* within 0.1 of round(average_hours / 24, 1) for the reported average_hours.
C13_DaysFromUnroundedHours ==
    (ret.op = "calculate_mttr" /\ ret.status = "ok") =>
        /\ MttrPopulation
        /\ ret.val.count > 0 =>
              IsRounded1(ret.val.average_days, TotalRecovery(ret.arg),
                         ret.val.count * 3600 * 24)
        /\ ret.val.average_days - Round1(ret.val.average_hours, 24 * 100) \in {-10, 0, 10}

C13_Witness ==
    /\ ret.op = "calculate_mttr"
    /\ ret.status = "ok"
    /\ Len(ret.arg) = 3
    /\ ret.val.count = 2
    /\ ret.val.average_hours = 2700
    /\ ret.val.average_days = 110

\* ---- the aggregator's result
Analyzed == ret.op = "analyze_dora_metrics" /\ ret.status = "ok" /\ ret.arg # <<>>

\* C14: over one input sequence total_issues counts every record,
\* mttr.count <= bug_issues <= total_issues,
\* mttr.count <= lead_time.count <= total_issues and
\* deployment_frequency.total_deployments <= total_issues.
C14_PopulationsRelated ==
    Analyzed =>
        LET v == ret.val
            total_issues == v.change_failure_rate.total_issues
        IN  /\ total_issues = Len(ret.arg)
            /\ v.mttr.count <= v.change_failure_rate.bug_issues
            /\ v.change_failure_rate.bug_issues <= total_issues
            /\ v.mttr.count <= v.lead_time.count
            /\ v.lead_time.count <= total_issues
            /\ "total_deployments" \in DOMAIN v.deployment_frequency
            /\ v.deployment_frequency.total_deployments <= total_issues

\* headline statistic of each summary and the metric name it is classified under
Headline ==
    [lead_time |-> <<"lead_time_days", "average">>,
     deployment_frequency |-> <<"deployments_per_week", "deployments_per_week">>,
     mttr |-> <<"mttr_hours", "average_hours">>,
     change_failure_rate |-> <<"failure_rate", "failure_rate_percent">>]

\* C15: in the result of analyze_dora_metrics each summary's
\* performance_level is the classifier applied to that summary's reported
\* headline statistic, and it is one of Elite, High, Medium, Low.
C15_LevelOfReportedHeadline ==
    Analyzed =>
        \A s \in DOMAIN Headline :
            /\ "performance_level" \in DOMAIN ret.val[s]
            /\ ret.val[s].performance_level =
                  get_performance_level(Headline[s][1], ret.val[s][Headline[s][2]])
            /\ ret.val[s].performance_level \in Tiers

C15_Witness ==
    /\ Analyzed
    /\ ret.val.lead_time.performance_level = "High"
    /\ ret.val.deployment_frequency.performance_level = "Elite"
    /\ ret.val.mttr.average_hours = 4800
    /\ ret.val.mttr.performance_level = "Medium"
    /\ ret.val.change_failure_rate.performance_level = "Low"

\* two results of the aggregator that differ in analysis_date at most
SameButDate(a, b) ==
    /\ a.status = b.status
    /\ a.status = "ok" =>
          /\ DOMAIN a.val = DOMAIN b.val
          /\ \A k \in DOMAIN a.val \ {"analysis_date"} : a.val[k] = b.val[k]

BugSomewhere(issue) ==
    issue.issuetype = "Bug" \/ NestedValue(issue, "issuetype") = "Bug"

ResolvedBug(issue) == BugSomewhere(issue) /\ ResolvedParses(issue)

\* C18: in the analysis of a non-empty input a metric whose population is
\* empty reports the headline value 0 with performance_level "Elite": so do
\* lead_time and deployment_frequency on an input with no resolved record
\* and mttr on an input with no resolved Bug; every performance_level is
\* one of the four tiers.
C18_EmptyPopulationIsElite ==
    Analyzed =>
        LET v == ret.val IN
        /\ v.lead_time.count = 0 =>
              v.lead_time.average = 0 /\ v.lead_time.performance_level = "Elite"
        /\ v.deployment_frequency.frequency = "No data" =>
              /\ v.deployment_frequency.deployments_per_week = 0
              /\ v.deployment_frequency.performance_level = "Elite"
        /\ v.mttr.count = 0 =>
              v.mttr.average_hours = 0 /\ v.mttr.performance_level = "Elite"
        /\ Count(ret.arg, ResolvedParses) = 0 =>
              /\ v.lead_time.count = 0
              /\ v.deployment_frequency.frequency = "No data"
        /\ Count(ret.arg, ResolvedBug) = 0 => v.mttr.count = 0
        /\ \A s \in DOMAIN Headline : v[s].performance_level \in Tiers

C18_Witness ==
    /\ Analyzed
    /\ ret.arg = <<FlatOpenBug, KeyOnly>>
    /\ ret.val.lead_time.performance_level = "Elite"
    /\ ret.val.deployment_frequency.performance_level = "Elite"
    /\ ret.val.mttr.performance_level = "Elite"
    /\ ret.val.change_failure_rate.performance_level = "Low"

\* ---- the two engines
IntegratedCalculators ==
    {"DORAMetricsIntegrated.calculate_lead_time",
     "DORAMetricsIntegrated.calculate_deployment_frequency",
     "DORAMetricsIntegrated.calculate_mttr",
     "DORAMetricsIntegrated.calculate_change_failure_rate"}

\* the result of the DORAMetricsIntegrated method op on issues
ApplyIntegrated(op, issues) ==
    CASE op = "DORAMetricsIntegrated.calculate_lead_time" ->
             Integrated_calculate_lead_time(issues)
      [] op = "DORAMetricsIntegrated.calculate_deployment_frequency" ->
             Integrated_calculate_deployment_frequency(issues)
      [] op = "DORAMetricsIntegrated.calculate_mttr" ->
             Integrated_calculate_mttr(issues)
      [] op = "DORAMetricsIntegrated.calculate_change_failure_rate" ->
             Integrated_calculate_change_failure_rate(issues)

\* the four fields under `fields` only
NestedOnly(issue) ==
    \A key \in {"created", "resolutiondate", "issuetype", "priority"} :
        issue[key] = Absent

AllNestedOnly(issues) == \A i \in 1..Len(issues) : NestedOnly(issues[i])

\* a flat record with its four fields taken away
WithoutTopLevel(issue) == IF IsFlat(issue) THEN KeyOnly ELSE issue

\* C19: on a sequence of records that carry the four fields under `fields`
\* only, each calculator and get_performance_level of DORAMetrics returns
\* what the method of the same name of DORAMetricsIntegrated returns, and
\* DORAMetricsIntegrated returns on a flat record what it returns on a
\* record without the four fields.
C19_VariantsAgreeOnNested ==
    /\ (ret.op \in Calculators /\ AllNestedOnly(ret.arg)) =>
          ret = Call(ret.op, ret.arg,
                     ApplyIntegrated("DORAMetricsIntegrated." \o ret.op, ret.arg))
    /\ ret.op \in IntegratedCalculators =>
          /\ AllNestedOnly(ret.arg) =>
                \E op \in Calculators :
                    /\ ret.op = "DORAMetricsIntegrated." \o op
                    /\ ret = Call(ret.op, ret.arg, Apply(op, ret.arg))
          /\ ret = Call(ret.op, ret.arg,
                        ApplyIntegrated(ret.op, MapSeq(ret.arg, WithoutTopLevel)))
    /\ ret.op = "get_performance_level" =>
          ret.val = Integrated_get_performance_level(ret.arg[1], ret.arg[2])
    /\ ret.op = "DORAMetricsIntegrated.get_performance_level" =>
          ret.val = get_performance_level(ret.arg[1], ret.arg[2])

C19_Witness ==
    /\ ret.op = "DORAMetricsIntegrated.calculate_mttr"
    /\ ret.arg = <<NestedBug, NestedStory>>
    /\ ret.status = "ok"
    /\ ret.val.count = 1
    /\ ret.val.average_hours = 4800

\* ---- analyze_dora.main
\* C20: run_dora_analysis runs only when fetch_jira_data returned data and
\* save_data wrote it to the data file, or the fetch returned nothing and the
\* existing data file was loaded without error; with no fetch result and no
\* data file, on a load error and on a save failure main returns 1 without
\* running the analysis; main returns 0 exactly when run_dora_analysis
\* returned True.
C20_AnalysisOnlyWithData ==
    LET w == workflow IN
    /\ w.success # "not run" =>
          \/ /\ w.fetched # NoData /\ w.via = "save" /\ w.saved
             /\ w.data_file = w.fetched
          \/ /\ w.fetched = NoData /\ w.via = "fallback"
             /\ w.data_file.kind = "object" /\ w.data = w.data_file
    /\ (\/ w.via = "fallback" /\ w.data_file.kind # "object"
        \/ w.via = "save" /\ ~w.saved) =>
          w.pc = "returned" /\ w.success = "not run" /\ w.returns = <<1>>
    /\ w.pc = "returned" =>
          /\ w.returns \in {<<0>>, <<1>>}
          /\ w.returns = <<0>> <=> w.success = "True"
    /\ w.pc # "returned" => w.returns = NotReturned /\ w.success = "not run"

C20_Witness ==
    /\ workflow.pc = "returned"
    /\ workflow.returns = <<0>>
    /\ workflow.fetched = Data(<<FlatBug, NestedStory>>)
    /\ workflow.data_file = workflow.fetched
    /\ workflow.success = "True"

\* ---- what the workflow reports
\* the ways main of dora_metrics.py ends without metrics
EndsWithoutMetrics ==
    {"data file not found", "data file unparseable", "no issues", "no metrics",
     "exception"}

\* C21: run_dora_analysis returns True and analyze_dora.main returns 0 only
\* if the dora_metrics.py run loaded a data file with at least one issue,
\* computed a non-empty metrics result and wrote the results file; when
\* that run ends on a missing or unparseable data file, an empty issue list
\* or a caught exception, run_dora_analysis returns False and main returns 1.
C21_SuccessOnlyWithMetrics ==
    workflow.pc = "returned" =>
        /\ (workflow.success = "True" \/ workflow.returns = <<0>>) =>
              /\ workflow.subprocess = "results written"
              /\ workflow.data_file.kind = "object"
              /\ workflow.data_file.issues # <<>>
        /\ workflow.subprocess \in EndsWithoutMetrics =>
              workflow.success = "False" /\ workflow.returns = <<1>>

====
